---- MODULE Spec2Model ----
(***************************************************************************)
(* A model of the talos-pxe boot server: the listener supervisor           *)
(* (Server.Serve / Server.Shutdown and the five service goroutines), the   *)
(* boot dispatch filter (Server.ipxeWrapperMenuHandler) and the bootstrap  *)
(* of main.                                                                *)
(***************************************************************************)
EXTENDS Integers, Sequences, FiniteSets, TLC

VARIABLES
    errs,        \* s.errs: the buffered outcome channel, oldest first
    servePc,     \* position of the goroutine running Serve
    bindIdx,     \* index in BindOrder of the next socket Serve binds
    goIdx,       \* index in LaunchOrder of the next `go` statement of Serve
    ret,         \* the value Serve returned (NoRet until it returns)
    bound,       \* sockets currently open
    loopPc,      \* position of each service goroutine
    loopOut,     \* the value each service function returned
    ports,       \* s.DHCPPort, s.TFTPPort, s.PXEPort, s.HTTPPort, s.DNSPort
    ForwardDns,  \* s.ForwardDns
    nShutdown,   \* number of Shutdown calls made so far
    firstSent,   \* history: the first value ever enqueued in errs
    nilDue,      \* history: whether a Shutdown was called before any loop had
                 \* enqueued an outcome, and whether Serve was then not yet
                 \* called or waiting
    Controlplane,  \* s.Controlplane
    IP,            \* s.IP
    GWIP,          \* s.GWIP
    Net,           \* s.Net
    ProxyDHCP,     \* s.ProxyDHCP
    DHCPAllocator, \* s.DHCPAllocator
    DNSRecordsv4,  \* s.DNSRecordsv4: name -> addresses, in registration order
    nReq,          \* number of HTTP requests handled so far
    lastReq,       \* the HTTP request handled last
    lastRR,        \* what the wrapped handler answered to it
    w,             \* the client's ResponseWriter after that request
    ops,           \* the calls the filter made for that request, in order
    mainPc,        \* position of main
    lease,         \* the result of runDhclient
    ipAddrFlag,    \* --addr
    gwAddrFlag,    \* --gw
    dnsAddrFlag,   \* --dns
    linkRes,       \* what eth.SetLinkIp returned to main
    gwRes,         \* what eth.SetLinkDefaultGw returned to main
    dhPc,          \* position of runDhclient
    timerFired,    \* the 10 s timeout of ctx has expired
    ctxCancelled,  \* the deferred cancel() has run
    clientRunning, \* the dhclient.Client is between Start and Stop
    senders,       \* the OnBound invocations waiting to send on leaseCh
    nBound,        \* number of OnBound invocations so far
    dhLease,       \* the lease runDhclient returns
    dhErr          \* the error runDhclient returns

supVars == <<errs, servePc, bindIdx, goIdx, ret, bound, loopPc, loopOut,
             ports, ForwardDns, nShutdown, firstSent, nilDue>>

httpVars == <<DNSRecordsv4, nReq, lastReq, lastRR, w, ops>>

bootVars == <<Controlplane, IP, GWIP, Net, ProxyDHCP, DHCPAllocator,
              mainPc, lease, ipAddrFlag, gwAddrFlag, dnsAddrFlag>>

linkVars == <<linkRes, gwRes>>

dhVars == <<dhPc, timerFired, ctxCancelled, clientRunning, senders, nBound,
           dhLease, dhErr>>

vars == <<supVars, httpVars, bootVars, linkVars, dhVars>>

(***************************************************************************)
(* Bounds of the model.                                                    *)
(***************************************************************************)
MaxShutdowns == 2

MaxRequests == 2

MaxBound == 2

(***************************************************************************)
(* Program constants.                                                      *)
(***************************************************************************)
ChanCap == 6

portDNS == 53

portDHCP == 67

portTFTP == 69

portHTTP == 8080

portPXE == 4011

forwardDns == "1.1.1.1:53"

Nil == "nil"

NoRet == "noret"

Loops == {"PXE", "TFTP", "HTTP", "DHCP", "DNS"}

\* The order of the `go` statements of Serve.
LaunchOrder == <<"PXE", "TFTP", "HTTP", "DHCP", "DNS">>

\* The order in which Serve binds its sockets.
BindOrder == <<"TFTP", "PXE", "HTTP", "DNS">>

BindErr(sock) == "bind " \o sock \o " failed"

BindErrs == {BindErr(BindOrder[i]) : i \in 1..Len(BindOrder)}

LoopErr(l) == l \o " failed"

\* startMatchbox wraps the non-nil error of http.Server.Serve.
StartMatchboxResult(err) ==
    IF err # Nil THEN "Matchbox server shut down: " \o err ELSE Nil

\* The value the service function of loop l returns when its server ends with e.
LoopResult(l, e) == IF l = "HTTP" THEN StartMatchboxResult(e) ELSE e

(***************************************************************************)
(* The channel s.errs.                                                     *)
(***************************************************************************)
ChanFull(ch) == Len(ch) >= ChanCap

ChanSend(ch, v) == Append(ch, v)

NoneSent == "none"

\* History of the first value ever enqueued.
NoteFirst(v) == IF firstSent = NoneSent THEN v ELSE firstSent

(***************************************************************************)
(* NewServer: the state after construction.                                *)
(***************************************************************************)
defaultControlplane == "controlplane.talos."

DNSNames == {defaultControlplane, "node1.talos."}

\* Lines 129-146: the fields NewServer sets; the others keep their zero value.
NewServer ==
    /\ errs = <<>>
    /\ Controlplane = defaultControlplane
    /\ DNSRecordsv4 = [n \in DNSNames |-> <<>>]
    /\ ports = [l \in Loops |-> 0]

\* No goroutine has run and no request was handled.
Fresh ==
    /\ servePc = "idle"
    /\ bindIdx = 1
    /\ goIdx = 1
    /\ ret = NoRet
    /\ bound = {}
    /\ loopPc = [l \in Loops |-> "idle"]
    /\ loopOut = [l \in Loops |-> NoRet]
    /\ nShutdown = 0
    /\ firstSent = NoneSent
    /\ nilDue = "no"
    /\ nReq = 0
    /\ lastReq = [path |-> "", type |-> <<>>, ip |-> <<>>, malformed |-> FALSE]
    /\ lastRR = [Code |-> 0, HeaderMap |-> {}, Body |-> ""]
    /\ w = [headers |-> {}, status |-> 0, body |-> <<>>]
    /\ ops = <<>>
    /\ dhPc = "idle"
    /\ timerFired = FALSE
    /\ ctxCancelled = FALSE
    /\ clientRunning = FALSE
    /\ senders = <<>>
    /\ nBound = 0
    /\ dhLease = [got |-> FALSE, FixedAddress |-> <<>>, Netmask |-> 0,
                  Router |-> <<>>, DNS |-> <<>>]
    /\ dhErr = NoRet

(***************************************************************************)
(* Server.Serve                                                            *)
(***************************************************************************)
DefaultPort(l) ==
    CASE l = "DHCP" -> portDHCP
      [] l = "TFTP" -> portTFTP
      [] l = "PXE"  -> portPXE
      [] l = "HTTP" -> portHTTP
      [] l = "DNS"  -> portDNS

\* Lines 75-93 with the forwarder list set to the default unconditionally.
ServeDefaultsAlways ==
    /\ ports' = [l \in Loops |-> IF ports[l] = 0 THEN DefaultPort(l) ELSE ports[l]]
    /\ ForwardDns' = <<forwardDns>>

\* Lines 75-93: the zero ports and the empty forwarder list get their defaults.
ServeDefaults ==
    /\ ports' = [l \in Loops |-> IF ports[l] = 0 THEN DefaultPort(l) ELSE ports[l]]
    /\ ForwardDns' = IF Len(ForwardDns) = 0 THEN <<forwardDns>> ELSE ForwardDns

ServeEnter ==
    /\ mainPc = "serve"
    /\ servePc = "idle"
    /\ ServeDefaults
    /\ servePc' = "bind"
    /\ UNCHANGED <<errs, bindIdx, goIdx, ret, bound, loopPc, loopOut,
                   nShutdown, firstSent, nilDue>>
    /\ UNCHANGED <<httpVars, bootVars>>
    /\ UNCHANGED <<linkVars, dhVars>>

\* Serve returning without its deferred Close calls.
DeferredCloseNone(b) == b

\* The sockets the deferred Close calls of Serve release when it returns.
DeferredClose(b) == b \ {BindOrder[i] : i \in 1..Len(BindOrder)}

\* ServeBind with the error of the bind left unchecked.
ServeBindUnchecked(ok) ==
    /\ servePc = "bind"
    /\ bound' = IF ok THEN bound \cup {BindOrder[bindIdx]} ELSE bound
    /\ bindIdx' = bindIdx + 1
    /\ servePc' = IF bindIdx = Len(BindOrder) THEN "go" ELSE "bind"
    /\ UNCHANGED <<errs, goIdx, ret, loopPc, loopOut, ports, ForwardDns,
                   nShutdown, firstSent, nilDue>>
    /\ UNCHANGED <<httpVars, bootVars>>
    /\ UNCHANGED <<linkVars, dhVars>>

\* Lines 95-114: one net.Listen / net.ListenPacket call and its error check.
ServeBind(ok) ==
    /\ servePc = "bind"
    /\ IF ok
       THEN /\ bound' = bound \cup {BindOrder[bindIdx]}
            /\ bindIdx' = bindIdx + 1
            /\ servePc' = IF bindIdx = Len(BindOrder) THEN "go" ELSE "bind"
            /\ ret' = ret
       ELSE /\ ret' = BindErr(BindOrder[bindIdx])
            /\ bound' = DeferredClose(bound)
            /\ servePc' = "returned"
            /\ bindIdx' = bindIdx
    /\ UNCHANGED <<errs, goIdx, loopPc, loopOut, ports, ForwardDns,
                   nShutdown, firstSent, nilDue>>
    /\ UNCHANGED <<httpVars, bootVars>>
    /\ UNCHANGED <<linkVars, dhVars>>

\* The first position of the goroutine of loop l.
LoopEntry(l) == IF l = "DHCP" THEN "binding" ELSE "running"

\* Lines 118-122: one `go func() { s.errs <- s.serveX(...) }()` statement.
ServeGo ==
    /\ servePc = "go"
    /\ loopPc' = [loopPc EXCEPT ![LaunchOrder[goIdx]] = LoopEntry(LaunchOrder[goIdx])]
    /\ goIdx' = goIdx + 1
    /\ servePc' = IF goIdx = Len(LaunchOrder) THEN "wait" ELSE "go"
    /\ UNCHANGED <<errs, bindIdx, ret, bound, loopOut, ports, ForwardDns,
                   nShutdown, firstSent, nilDue>>
    /\ UNCHANGED <<httpVars, bootVars>>
    /\ UNCHANGED <<linkVars, dhVars>>

\* ServeRecv draining the channel until every loop has reported, keeping the
\* last outcome.
ServeRecvWaitsAll ==
    /\ servePc = "wait"
    /\ Len(errs) > 0
    /\ \A l \in Loops : loopPc[l] = "done"
    /\ ret' = errs[Len(errs)]
    /\ errs' = <<>>
    /\ bound' = DeferredClose(bound)
    /\ servePc' = "returned"
    /\ UNCHANGED <<bindIdx, goIdx, loopPc, loopOut, ports, ForwardDns,
                   nShutdown, firstSent, nilDue>>
    /\ UNCHANGED <<httpVars, bootVars>>
    /\ UNCHANGED <<linkVars, dhVars>>

\* Lines 125-126: err = <-s.errs; return err (then the deferred closes run).
ServeRecv ==
    /\ servePc = "wait"
    /\ Len(errs) > 0
    /\ ret' = Head(errs)
    /\ errs' = Tail(errs)
    /\ bound' = DeferredClose(bound)
    /\ servePc' = "returned"
    /\ UNCHANGED <<bindIdx, goIdx, loopPc, loopOut, ports, ForwardDns,
                   nShutdown, firstSent, nilDue>>
    /\ UNCHANGED <<httpVars, bootVars>>
    /\ UNCHANGED <<linkVars, dhVars>>

(***************************************************************************)
(* The service goroutines.                                                 *)
(***************************************************************************)
\* startDhcp opens its own socket once its goroutine runs; Serve binds none
\* for it.
StartDhcpBind(ok) ==
    /\ loopPc["DHCP"] = "binding"
    /\ IF ok
       THEN /\ bound' = bound \cup {"DHCP"}
            /\ loopPc' = [loopPc EXCEPT !["DHCP"] = "running"]
            /\ loopOut' = loopOut
       ELSE /\ bound' = bound
            /\ loopPc' = [loopPc EXCEPT !["DHCP"] = "sending"]
            /\ loopOut' = [loopOut EXCEPT !["DHCP"] = LoopErr("DHCP")]
    /\ UNCHANGED <<errs, servePc, bindIdx, goIdx, ret, ports, ForwardDns,
                   nShutdown, firstSent, nilDue>>
    /\ UNCHANGED <<httpVars, bootVars>>
    /\ UNCHANGED <<linkVars, dhVars>>

\* The service function of loop l returns: its server ended with e.
LoopExit(l, e) ==
    /\ loopPc[l] = "running"
    /\ loopPc' = [loopPc EXCEPT ![l] = "sending"]
    /\ loopOut' = [loopOut EXCEPT ![l] = LoopResult(l, e)]
    /\ UNCHANGED <<errs, servePc, bindIdx, goIdx, ret, bound, ports, ForwardDns,
                   nShutdown, firstSent, nilDue>>
    /\ UNCHANGED <<httpVars, bootVars>>
    /\ UNCHANGED <<linkVars, dhVars>>

\* The send s.errs <- ... of the goroutine of loop l; it waits while the
\* channel is full.
LoopSend(l) ==
    /\ loopPc[l] = "sending"
    /\ ~ChanFull(errs)
    /\ errs' = ChanSend(errs, loopOut[l])
    /\ firstSent' = NoteFirst(loopOut[l])
    /\ loopPc' = [loopPc EXCEPT ![l] = "done"]
    /\ loopOut' = [loopOut EXCEPT ![l] = NoRet]
    /\ UNCHANGED <<servePc, bindIdx, goIdx, ret, bound, ports,
                   ForwardDns, nShutdown, nilDue>>
    /\ UNCHANGED <<httpVars, bootVars>>
    /\ UNCHANGED <<linkVars, dhVars>>

(***************************************************************************)
(* Server.Shutdown                                                         *)
(***************************************************************************)
\* The select sending only into an empty channel.
ShutdownOnlyIfEmpty(ch) == IF Len(ch) = 0 THEN ChanSend(ch, Nil) ELSE ch

\* The select never taking its send case.
ShutdownNoSend(ch) == ch

\* Lines 181-184: select { case s.errs <- nil: default: }
ShutdownSelect(ch) == IF ~ChanFull(ch) THEN ChanSend(ch, Nil) ELSE ch

Shutdown ==
    /\ nShutdown < MaxShutdowns
    /\ nShutdown' = nShutdown + 1
    /\ errs' = ShutdownSelect(errs)
    /\ firstSent' = IF errs' # errs THEN NoteFirst(Nil) ELSE firstSent
    /\ nilDue' = IF servePc # "returned" /\ \A l \in Loops : loopPc[l] # "done"
                 THEN IF servePc \in {"idle", "wait"} \/ nilDue = "idleOrWait"
                      THEN "idleOrWait" ELSE "yes"
                 ELSE nilDue
    /\ UNCHANGED <<servePc, bindIdx, goIdx, ret, bound, loopPc, loopOut,
                   ports, ForwardDns>>
    /\ UNCHANGED <<httpVars, bootVars>>
    /\ UNCHANGED <<linkVars, dhVars>>

(***************************************************************************)
(* Addresses: an IPv4 address is a 4-tuple of bytes, NilIP is net.IP(nil). *)
(***************************************************************************)
NilIP == <<>>

KnownIPs == {<<10, 0, 0, 5>>, <<10, 0, 0, 6>>, <<10, 0, 0, 7>>, <<10, 0, 0, 1>>,
             <<10, 0, 0, 53>>, <<192, 168, 123, 1>>, <<192, 168, 123, 254>>}

\* net.IP.String
IPString(ip) ==
    IF ip = NilIP
    THEN "<nil>"
    ELSE ToString(ip[1]) \o "." \o ToString(ip[2]) \o "."
             \o ToString(ip[3]) \o "." \o ToString(ip[4])

\* net.ParseIP: the address a dotted quad spells, nil for anything else.
ParseIP(str) ==
    IF \E ip \in KnownIPs : IPString(ip) = str
    THEN CHOOSE ip \in KnownIPs : IPString(ip) = str
    ELSE NilIP

(***************************************************************************)
(* The boot dispatch filter: Server.ipxeWrapperMenuHandler.                *)
(***************************************************************************)
StatusOK == 200

StatusInternalServerError == 500

\* url.Values.Get: the first value of the key, "" when there is none.
FormGet(values) == IF Len(values) = 0 THEN "" ELSE values[1]

\* A fresh http.ResponseWriter: no header set, no status line, no body.
EmptyW == [headers |-> {}, status |-> 0, body |-> <<>>]

\* w.Header().Add for every value of a captured header map.
WAddHeaders(rw, hdrs) == [rw EXCEPT !.headers = @ \cup hdrs]

\* w.WriteHeader: the first status line wins, later calls are superfluous.
WWriteHeader(rw, code) == IF rw.status = 0 THEN [rw EXCEPT !.status = code] ELSE rw

\* w.Write: sends status OK first when no status line was written.
WWrite(rw, bytes) ==
    [rw EXCEPT !.status = IF @ = 0 THEN StatusOK ELSE @,
               !.body = Append(@, bytes)]

\* What the wrapped matchbox handler writes into the writer it is given.
PrimaryServe(rw, rr) == WWrite(WWriteHeader(WAddHeaders(rw, rr.HeaderMap), rr.Code), rr.Body)

\* ipxeMenuTemplate rendered for the server: the menu chains to s.IP.
Menu(ip) == "#!ipxe menu http://" \o IPString(ip) \o ":8080/ipxe"

MenuPart == "#!ipxe menu http://"

\* ipxeMenuTemplate.Execute(w, s) and the error branch of lines 294-297.
ServeMenu(rw, ip, tmpl) ==
    CASE tmpl = "ok" -> WWrite(rw, Menu(ip))
      [] tmpl = "failBeforeWrite" -> WWriteHeader(rw, StatusInternalServerError)
      [] tmpl = "failAfterWrite" ->
            WWriteHeader(WWrite(rw, MenuPart), StatusInternalServerError)

\* Line 276 with worker nodes registered as well.
IsControlplaneTypeOrWorker(machineType) ==
    machineType \in {"init", "controlplane", "worker"}

\* Line 276: machineType == "init" || machineType == "controlplane"
IsControlplaneType(machineType) == machineType \in {"init", "controlplane"}

\* Line 259 with every path treated as a boot-script path.
IsIpxePathAlways(path) == TRUE

\* Line 259: the paths the filter leaves to the wrapped handler untouched.
IsIpxePath(path) == ~(path # "ipxe" /\ path # "/ipxe")

\* Line 267: the branch that registers and relays is taken when rr.Code is
\* not http.StatusOK; the menu is rendered otherwise.
TakesRelayBranch(code) == code # StatusOK

\* registerDNSEntry: append the address to the addresses of the name.
RegisterDNSEntry(store, name, ip) == [store EXCEPT ![name] = Append(@, ip)]

\* Line 268 with the error of req.ParseForm() ignored.
ParseFormNeverFails(req) == FALSE

\* Line 268: req.ParseForm() returns an error for a malformed query or body.
ParseFormFails(req) == req.malformed

\* The calls of lines 268-290 with the registration moved behind the relay.
RelayCallsRegisterLast(registers) ==
    <<"primaryHandler(rr)", "ParseForm", "Header.Add", "WriteHeader", "Write">>
        \o (IF registers THEN <<"registerDNSEntry">> ELSE <<>>)

\* Lines 264-290: the calls of the relay branch in their order.
RelayCalls(registers) ==
    <<"primaryHandler(rr)", "ParseForm">>
        \o (IF registers THEN <<"registerDNSEntry">> ELSE <<>>)
        \o <<"Header.Add", "WriteHeader", "Write">>

\* Lines 264-297: the calls of the menu branch; WriteHeader follows a failed
\* Execute.
MenuCalls(tmpl) ==
    <<"primaryHandler(rr)", "Execute">>
        \o (IF tmpl = "ok" THEN <<>> ELSE <<"WriteHeader">>)

\* Lines 258-299: the filter handling one request; rr is the answer of the
\* wrapped handler, tmpl the fate of the template execution.
HandleRequest(req, rr, tmpl) ==
    /\ loopPc["HTTP"] = "running"
    /\ nReq < MaxRequests
    /\ nReq' = nReq + 1
    /\ lastReq' = req
    /\ lastRR' = rr
    /\ LET machineType == FormGet(req.type)
           remoteIp == ParseIP(FormGet(req.ip))
       IN  IF ~IsIpxePath(req.path)
           THEN /\ w' = PrimaryServe(EmptyW, rr)
                /\ ops' = <<"primaryHandler(w)">>
                /\ UNCHANGED DNSRecordsv4
           ELSE IF TakesRelayBranch(rr.Code)
           THEN IF ParseFormFails(req)
                THEN /\ w' = EmptyW
                     /\ ops' = <<"primaryHandler(rr)", "ParseForm">>
                     /\ UNCHANGED DNSRecordsv4
                ELSE IF IsControlplaneType(machineType)
                THEN /\ DNSRecordsv4' = RegisterDNSEntry(DNSRecordsv4, Controlplane, remoteIp)
                     /\ w' = WWrite(WWriteHeader(WAddHeaders(EmptyW, rr.HeaderMap), rr.Code), rr.Body)
                     /\ ops' = RelayCalls(TRUE)
                ELSE /\ w' = WWrite(WWriteHeader(WAddHeaders(EmptyW, rr.HeaderMap), rr.Code), rr.Body)
                     /\ ops' = RelayCalls(FALSE)
                     /\ UNCHANGED DNSRecordsv4
           ELSE /\ w' = ServeMenu(EmptyW, IP, tmpl)
                /\ ops' = MenuCalls(tmpl)
                /\ UNCHANGED DNSRecordsv4
    /\ UNCHANGED <<supVars, bootVars>>
    /\ UNCHANGED <<linkVars, dhVars>>

(***************************************************************************)
(* main: the bootstrap that configures the server before Serve.            *)
(***************************************************************************)
\* The low 16 bits of an address, and the address with them replaced; the
\* prefixes of the model are at least 16 bits long.
Low16(ip) == ip[3] * 256 + ip[4]

WithLow16(ip, n) == <<ip[1], ip[2], (n \div 256) % 256, n % 256>>

RECURSIVE Pow2(_)
Pow2(k) == IF k = 0 THEN 1 ELSE 2 * Pow2(k - 1)

NilNet == [IP |-> NilIP, bits |-> 0]

\* The network address of ip under a mask of the given length.
MaskIP(ip, bits) == WithLow16(ip, Low16(ip) - (Low16(ip) % Pow2(32 - bits)))

PrefixLens == {24, 30}

\* net.ParseCIDR: address and network of "a.b.c.d/len", an error otherwise.
ParseCIDR(str) ==
    IF \E ip \in KnownIPs, b \in PrefixLens : IPString(ip) \o "/" \o ToString(b) = str
    THEN LET p == CHOOSE p \in KnownIPs \X PrefixLens :
                      IPString(p[1]) \o "/" \o ToString(p[2]) = str
         IN  [ok |-> TRUE, ip |-> p[1], net |-> [IP |-> MaskIP(p[1], p[2]), bits |-> p[2]]]
    ELSE [ok |-> FALSE, ip |-> NilIP, net |-> NilNet]

\* getAvailableRange: the assignable addresses of the network, without the
\* network address, the broadcast address and the host's own address.
GetAvailableRange(net, hostIp) ==
    LET network == Low16(net.IP)
        broadcast == network + Pow2(32 - net.bits) - 1
        first == IF network + 1 = Low16(hostIp) THEN network + 2 ELSE network + 1
        last == IF broadcast - 1 = Low16(hostIp) THEN broadcast - 2 ELSE broadcast - 1
    IN  <<WithLow16(net.IP, first), WithLow16(net.IP, last)>>

NoLease == [got |-> FALSE, FixedAddress |-> NilIP, Netmask |-> 0, Router |-> <<>>, DNS |-> <<>>]

Leases ==
    {[got |-> TRUE, FixedAddress |-> <<10, 0, 0, 7>>, Netmask |-> 24, Router |-> r, DNS |-> d] :
        r \in {<<>>, <<<<10, 0, 0, 1>>>>},
        d \in {<<>>, <<<<10, 0, 0, 53>>>>, <<<<10, 0, 0, 53>>, <<10, 0, 0, 1>>>>}}

NoAllocator == [made |-> FALSE, first |-> NilIP, last |-> NilIP]

\* The link call was not made.
NotCalled == "notcalled"

\* The errno values the link calls of main tell apart.
LinkErrs == {"nil", "EEXIST", "EPERM"}

\* The test without its EEXIST exemption.
IsFatalLinkErrStrict(err) == err # "nil"

\* err != nil && err != syscall.EEXIST
IsFatalLinkErr(err) == err # "nil" /\ err # "EEXIST"

\* The zero values of the fields main fills in after NewServer.
ZeroConfig ==
    /\ IP = NilIP
    /\ GWIP = NilIP
    /\ Net = NilNet
    /\ ProxyDHCP = FALSE
    /\ DHCPAllocator = NoAllocator
    /\ ForwardDns = <<>>

(***************************************************************************)
(* runDhclient: the bootstrap DHCP negotiation.                            *)
(***************************************************************************)
\* Lines 70-89: the context with its timeout, leaseCh (unbuffered) and the
\* client are made and the client is started.
DhStart ==
    /\ mainPc = "dhclient"
    /\ dhPc = "idle"
    /\ dhPc' = "select"
    /\ clientRunning' = TRUE
    /\ UNCHANGED <<timerFired, ctxCancelled, senders, nBound, dhLease, dhErr>>
    /\ UNCHANGED <<supVars, httpVars, bootVars, linkVars>>

\* Lines 77-79: the running client calls OnBound, which blocks in
\* leaseCh <- lease until runDhclient receives.
ClientBound(l) ==
    /\ clientRunning
    /\ nBound < MaxBound
    /\ nBound' = nBound + 1
    /\ senders' = Append(senders, l)
    /\ UNCHANGED <<dhPc, timerFired, ctxCancelled, clientRunning, dhLease, dhErr>>
    /\ UNCHANGED <<supVars, httpVars, bootVars, linkVars>>

\* Line 71: the 10 s timeout of ctx expires.
TimeoutFires ==
    /\ dhPc # "idle"
    /\ ~timerFired
    /\ ~ctxCancelled
    /\ timerFired' = TRUE
    /\ UNCHANGED <<dhPc, ctxCancelled, clientRunning, senders, nBound, dhLease, dhErr>>
    /\ UNCHANGED <<supVars, httpVars, bootVars, linkVars>>

\* The sequence without its i-th element.
RemoveAt(seq, i) == SubSeq(seq, 1, i - 1) \o SubSeq(seq, i + 1, Len(seq))

\* Lines 93-94: case lease := <-leaseCh: return lease, nil
DhSelectLease ==
    /\ dhPc = "select"
    /\ \E i \in 1..Len(senders) :
          /\ dhLease' = senders[i]
          /\ senders' = RemoveAt(senders, i)
    /\ dhErr' = Nil
    /\ dhPc' = "stop"
    /\ UNCHANGED <<timerFired, ctxCancelled, clientRunning, nBound>>
    /\ UNCHANGED <<supVars, httpVars, bootVars, linkVars>>

\* Lines 95-96: case <-ctx.Done(): return nil, fmt.Errorf(...)
DhSelectTimeout ==
    /\ dhPc = "select"
    /\ timerFired
    /\ dhLease' = NoLease
    /\ dhErr' = "Could not get DHCP"
    /\ dhPc' = "stop"
    /\ UNCHANGED <<timerFired, ctxCancelled, clientRunning, senders, nBound>>
    /\ UNCHANGED <<supVars, httpVars, bootVars, linkVars>>

\* runDhclient without its deferred client.Stop().
DhStopSkipped ==
    /\ dhPc = "stop"
    /\ dhPc' = "cancel"
    /\ UNCHANGED <<timerFired, ctxCancelled, clientRunning, senders, nBound, dhLease, dhErr>>
    /\ UNCHANGED <<supVars, httpVars, bootVars, linkVars>>

\* Line 90: the deferred client.Stop(); the client makes no further call of
\* OnBound, the calls under way stay where they are.
DhStop ==
    /\ dhPc = "stop"
    /\ clientRunning' = FALSE
    /\ dhPc' = "cancel"
    /\ UNCHANGED <<timerFired, ctxCancelled, senders, nBound, dhLease, dhErr>>
    /\ UNCHANGED <<supVars, httpVars, bootVars, linkVars>>

\* Line 72: the deferred cancel(), after which runDhclient has returned.
DhCancel ==
    /\ dhPc = "cancel"
    /\ ctxCancelled' = TRUE
    /\ dhPc' = "returned"
    /\ UNCHANGED <<timerFired, clientRunning, senders, nBound, dhLease, dhErr>>
    /\ UNCHANGED <<supVars, httpVars, bootVars, linkVars>>

\* Line 134 with the error of the negotiation treated as fatal.
MainRunDhclientFatal(l) ==
    /\ mainPc = "dhclient"
    /\ lease' = l
    /\ mainPc' = IF l.got THEN "proxy" ELSE "panic"
    /\ UNCHANGED <<supVars, httpVars, Controlplane, IP, GWIP, Net, ProxyDHCP,
                   DHCPAllocator, ipAddrFlag, gwAddrFlag, dnsAddrFlag>>
    /\ UNCHANGED <<linkVars, dhVars>>

\* Line 134: lease, err := runDhclient(...); err is not looked at.
MainRunDhclient(l) ==
    /\ mainPc = "dhclient"
    /\ lease' = l
    /\ mainPc' = IF l.got THEN "proxy" ELSE "static"
    /\ UNCHANGED <<supVars, httpVars, Controlplane, IP, GWIP, Net, ProxyDHCP,
                   DHCPAllocator, ipAddrFlag, gwAddrFlag, dnsAddrFlag>>
    /\ UNCHANGED <<linkVars, dhVars>>

\* fmt.Sprintf("%s:53", dns) for every DNS server of the lease.
LeaseForwarders(l) == [i \in 1..Len(l.DNS) |-> IPString(l.DNS[i]) \o ":53"]

\* Lines 135-160: the lease branch.
MainProxy(linkErr, gwErr) ==
    /\ mainPc = "proxy"
    /\ linkRes' = linkErr
    /\ gwRes' = IF ~IsFatalLinkErr(linkErr) /\ Len(lease.Router) > 0 THEN gwErr ELSE gwRes
    /\ IF IsFatalLinkErr(linkErr) \/ (Len(lease.Router) > 0 /\ IsFatalLinkErr(gwErr))
       THEN /\ mainPc' = "panic"
            /\ UNCHANGED <<IP, ProxyDHCP, ForwardDns>>
       ELSE /\ ForwardDns' = ForwardDns \o LeaseForwarders(lease)
            /\ IP' = lease.FixedAddress
            /\ ProxyDHCP' = TRUE
            /\ mainPc' = "overrides"
    /\ UNCHANGED <<errs, servePc, bindIdx, goIdx, ret, bound, loopPc, loopOut,
                   ports, nShutdown, firstSent, nilDue>>
    /\ UNCHANGED <<httpVars, Controlplane, GWIP, Net, DHCPAllocator, lease,
                   ipAddrFlag, gwAddrFlag, dnsAddrFlag>>
    /\ UNCHANGED dhVars

\* Lines 161-179: the branch taken without a lease.  The error of ParseCIDR
\* is not looked at, so a bad --addr ends in the nil dereference of line 164.
MainStatic(allocOk, linkErr) ==
    /\ mainPc = "static"
    /\ LET c == ParseCIDR(ipAddrFlag)
           range == GetAvailableRange(c.net, c.ip)
       IN  IF ~c.ok
           THEN /\ mainPc' = "panic"
                /\ UNCHANGED <<IP, Net, ProxyDHCP, DHCPAllocator, linkRes>>
           ELSE /\ IP' = c.ip
                /\ linkRes' = IF allocOk THEN linkErr ELSE linkRes
                /\ Net' = c.net
                /\ ProxyDHCP' = FALSE
                /\ DHCPAllocator' =
                       IF allocOk
                       THEN [made |-> TRUE, first |-> range[1], last |-> range[2]]
                       ELSE DHCPAllocator
                /\ mainPc' = IF ~allocOk \/ IsFatalLinkErr(linkErr)
                             THEN "panic" ELSE "overrides"
    /\ UNCHANGED <<supVars, httpVars, Controlplane, GWIP, lease,
                   ipAddrFlag, gwAddrFlag, dnsAddrFlag, gwRes>>
    /\ UNCHANGED dhVars

\* Lines 181-191 with the DNS override added to the learned forwarders.
MainOverridesAppend ==
    /\ mainPc = "overrides"
    /\ GWIP' = IF gwAddrFlag # "" /\ ~lease.got THEN ParseIP(gwAddrFlag) ELSE IP
    /\ ForwardDns' = IF dnsAddrFlag # "" THEN Append(ForwardDns, dnsAddrFlag) ELSE ForwardDns
    /\ mainPc' = "serve"
    /\ UNCHANGED <<errs, servePc, bindIdx, goIdx, ret, bound, loopPc, loopOut,
                   ports, nShutdown, firstSent, nilDue>>
    /\ UNCHANGED <<httpVars, Controlplane, IP, Net, ProxyDHCP, DHCPAllocator,
                   lease, ipAddrFlag, gwAddrFlag, dnsAddrFlag>>
    /\ UNCHANGED <<linkVars, dhVars>>

\* Lines 181-191: the gateway and DNS overrides.
MainOverrides ==
    /\ mainPc = "overrides"
    /\ GWIP' = IF gwAddrFlag # "" THEN ParseIP(gwAddrFlag) ELSE IP
    /\ ForwardDns' = IF dnsAddrFlag # "" THEN <<dnsAddrFlag>> ELSE ForwardDns
    /\ mainPc' = "serve"
    /\ UNCHANGED <<errs, servePc, bindIdx, goIdx, ret, bound, loopPc, loopOut,
                   ports, nShutdown, firstSent, nilDue>>
    /\ UNCHANGED <<httpVars, Controlplane, IP, Net, ProxyDHCP, DHCPAllocator,
                   lease, ipAddrFlag, gwAddrFlag, dnsAddrFlag>>
    /\ UNCHANGED <<linkVars, dhVars>>

\* The values given to --addr, --gw and --dns.
AddrFlags == {"192.168.123.1/24", "10.0.0.5/30", "not-a-cidr"}

GwFlags == {"", "192.168.123.254", "not-an-ip"}

DnsFlags == {"", "9.9.9.9:53"}

\* main after NewServer (line 132), before the negotiation.
InitBoot ==
    /\ NewServer
    /\ Fresh
    /\ ZeroConfig
    /\ mainPc = "dhclient"
    /\ lease = NoLease
    /\ linkRes = NotCalled
    /\ gwRes = NotCalled
    /\ ipAddrFlag \in AddrFlags
    /\ gwAddrFlag \in GwFlags
    /\ dnsAddrFlag \in DnsFlags

NextBoot ==
    \/ \E l \in Leases \cup {NoLease} : MainRunDhclient(l)
    \/ \E linkErr \in LinkErrs, gwErr \in LinkErrs : MainProxy(linkErr, gwErr)
    \/ \E allocOk \in BOOLEAN, linkErr \in LinkErrs : MainStatic(allocOk, linkErr)
    \/ MainOverrides
    \/ ServeEnter

SpecBoot == InitBoot /\ [][NextBoot]_vars

\* main takes what runDhclient returned (line 134).
DhReturnToMain == dhPc = "returned" /\ MainRunDhclient(dhLease)

NextDhclient ==
    \/ DhStart
    \/ \E l \in Leases : ClientBound(l)
    \/ TimeoutFires
    \/ DhSelectLease
    \/ DhSelectTimeout
    \/ DhStop
    \/ DhCancel
    \/ DhReturnToMain

SpecDhclient == InitBoot /\ [][NextDhclient]_vars

\* The goroutine running runDhclient is scheduled as long as it can take a
\* step, and the timeout of the context expires unless it is cancelled.
DhStep == DhStart \/ DhSelectLease \/ DhSelectTimeout \/ DhStop \/ DhCancel

FairDhclient == SpecDhclient /\ WF_vars(DhStep) /\ WF_vars(TimeoutFires)

\* The configuration main reaches with its default flags and no lease.
DefaultConfig ==
    /\ IP = <<192, 168, 123, 1>>
    /\ GWIP = <<192, 168, 123, 1>>
    /\ Net = [IP |-> <<192, 168, 123, 0>>, bits |-> 24]
    /\ ProxyDHCP = FALSE
    /\ DHCPAllocator = [made |-> TRUE, first |-> <<192, 168, 123, 2>>,
                        last |-> <<192, 168, 123, 254>>]
    /\ lease = NoLease
    /\ ipAddrFlag = "192.168.123.1/24"
    /\ gwAddrFlag = ""
    /\ dnsAddrFlag = ""
    /\ linkRes = "nil"
    /\ gwRes = NotCalled

(***************************************************************************)
(* The dispatch filter's specification: requests reaching the running     *)
(* HTTP service.                                                           *)
(***************************************************************************)
Requests ==
    [path : {"/ipxe", "ipxe", "/assets/vmlinuz"},
     type : {<<>>, <<"init">>, <<"controlplane">>, <<"worker">>, <<"shell">>,
             <<"worker", "init">>},
     ip : {<<>>, <<"10.0.0.5">>, <<"10.0.0.6">>, <<"not-an-ip">>},
     malformed : BOOLEAN]

\* The answers of the wrapped handler: a matched profile, or no match.
PrimaryResponses ==
    {[Code |-> StatusOK, HeaderMap |-> {<<"Content-Type", "text/plain">>},
      Body |-> "#!ipxe profile"],
     [Code |-> 404,
      HeaderMap |-> {<<"Content-Type", "text/plain; charset=utf-8">>,
                     <<"X-Content-Type-Options", "nosniff">>},
      Body |-> "404 page not found"]}

TemplateFates == {"ok", "failBeforeWrite", "failAfterWrite"}

\* Serve waits on the channel with its four sockets bound and all five loops
\* running.
Serving ==
    /\ servePc = "wait"
    /\ bindIdx = Len(BindOrder) + 1
    /\ goIdx = Len(LaunchOrder) + 1
    /\ ret = NoRet
    /\ bound = Loops
    /\ loopPc = [l \in Loops |-> "running"]
    /\ loopOut = [l \in Loops |-> NoRet]
    /\ nShutdown = 0
    /\ firstSent = NoneSent
    /\ nilDue = "no"
    /\ nReq = 0
    /\ lastReq = [path |-> "", type |-> <<>>, ip |-> <<>>, malformed |-> FALSE]
    /\ lastRR = [Code |-> 0, HeaderMap |-> {}, Body |-> ""]
    /\ w = [headers |-> {}, status |-> 0, body |-> <<>>]
    /\ ops = <<>>
    /\ dhPc = "idle" /\ timerFired = FALSE /\ ctxCancelled = FALSE
    /\ clientRunning = FALSE
    /\ senders = <<>> /\ nBound = 0 /\ dhLease = NoLease /\ dhErr = NoRet

InitDispatch ==
    /\ errs = <<>>
    /\ Controlplane = defaultControlplane
    /\ DNSRecordsv4 = [n \in DNSNames |-> <<>>]
    /\ ports = [l \in Loops |-> DefaultPort(l)]
    /\ ForwardDns = <<forwardDns>>
    /\ DefaultConfig
    /\ mainPc = "serve"
    /\ Serving

NextDispatch ==
    \E req \in Requests, rr \in PrimaryResponses, tmpl \in TemplateFates :
        HandleRequest(req, rr, tmpl)

SpecDispatch == InitDispatch /\ [][NextDispatch]_vars

(***************************************************************************)
(* The supervisor's specification.                                         *)
(***************************************************************************)
\* main is about to call Serve (line 193).
Init ==
    /\ NewServer
    /\ Fresh
    /\ ForwardDns = <<>>
    /\ DefaultConfig
    /\ mainPc = "serve"

Next ==
    \/ ServeEnter
    \/ \E ok \in BOOLEAN : ServeBind(ok)
    \/ ServeGo
    \/ ServeRecv
    \/ \E ok \in BOOLEAN : StartDhcpBind(ok)
    \/ \E l \in Loops : \E e \in {Nil, LoopErr(l)} : LoopExit(l, e)
    \/ \E l \in Loops : LoopSend(l)
    \/ Shutdown

Spec == Init /\ [][Next]_vars

\* The goroutine running Serve is scheduled as long as it can take a step.
ServeStep == ServeEnter \/ (\E ok \in BOOLEAN : ServeBind(ok)) \/ ServeGo \/ ServeRecv

FairSpec == Spec /\ WF_vars(ServeStep)

(***************************************************************************)
(* The server as a whole: Serve, Shutdown, the loops and the filter on the *)
(* configuration main hands to Serve.                                      *)
(***************************************************************************)
\* A boot-script request of a bootstrap node.
FrameRequests ==
    {[path |-> "/ipxe", type |-> <<"init">>, ip |-> <<"10.0.0.5">>, malformed |-> FALSE]}

\* main is about to call Serve (line 193), with or without the --dns flag.
InitFrame ==
    /\ NewServer
    /\ Fresh
    /\ IP = <<192, 168, 123, 1>>
    /\ GWIP = <<192, 168, 123, 1>>
    /\ Net = [IP |-> <<192, 168, 123, 0>>, bits |-> 24]
    /\ ProxyDHCP = FALSE
    /\ DHCPAllocator = [made |-> TRUE, first |-> <<192, 168, 123, 2>>,
                        last |-> <<192, 168, 123, 254>>]
    /\ lease = NoLease
    /\ ipAddrFlag = "192.168.123.1/24"
    /\ gwAddrFlag = ""
    /\ dnsAddrFlag \in DnsFlags
    /\ ForwardDns = IF dnsAddrFlag # "" THEN <<dnsAddrFlag>> ELSE <<>>
    /\ linkRes = "nil"
    /\ gwRes = NotCalled
    /\ mainPc = "serve"

\* The steps of the supervisor and of the filter together; a loop that ends
\* ends with its error, and the menu template renders.
NextFrame ==
    \/ ServeEnter
    \/ \E ok \in BOOLEAN : ServeBind(ok)
    \/ ServeGo
    \/ ServeRecv
    \/ \E ok \in BOOLEAN : StartDhcpBind(ok)
    \/ \E l \in Loops : LoopExit(l, LoopErr(l))
    \/ \E l \in Loops : LoopSend(l)
    \/ Shutdown
    \/ \E req \in FrameRequests, rr \in PrimaryResponses :
           HandleRequest(req, rr, "ok")

SpecFrame == InitFrame /\ [][NextFrame]_vars

(***************************************************************************)
(* Properties of the listener supervisor.                                  *)
(***************************************************************************)
Launched == goIdx > Len(LaunchOrder)

\* Serve received its return value from the channel.
Delivered == servePc = "returned" /\ ret \notin BindErrs

ServeSockets == {BindOrder[i] : i \in 1..Len(BindOrder)}

\* C1: once the five loops are launched, Serve can return as soon as one
\* outcome is in the channel, whatever the loops are doing, and the value it
\* returns is the first outcome ever enqueued.
C1_ServeReturnsFirstOutcome ==
    /\ (Launched /\ servePc = "wait" /\ Len(errs) > 0) => ENABLED ServeRecv
    /\ (Launched /\ servePc = "returned") => ret = firstSent

\* C1 witness: Serve has returned the error of one loop while other loops
\* are still running and yet another one reported after it.
C1_Witness ==
    /\ Launched /\ servePc = "returned"
    /\ ret = LoopErr("DNS")
    /\ loopPc["PXE"] = "running"
    /\ loopPc["TFTP"] = "done"

\* C2: no loop ever finds the channel full when it sends its outcome.
C2_NoLoopBlocksOnSend ==
    \A l \in Loops : ~(loopPc[l] = "sending" /\ ChanFull(errs))

IsShutdownStep == nShutdown' = nShutdown + 1

C4_ShutdownMakesServeReturnNil ==
    (servePc = "returned" /\ nilDue = "idleOrWait") => ret = Nil

\* C4 amended: after a Shutdown Serve eventually returns; it returns nil when
\* no loop had enqueued before the Shutdown and Serve's own binds succeeded
\* (a bind error is returned otherwise); Shutdown can always be taken.
C4_ShutdownEndsServe ==
    /\ (nShutdown > 0) ~> (servePc = "returned")
    /\ []((servePc = "returned" /\ nilDue # "no" /\ ret \notin BindErrs) => ret = Nil)
    /\ []((servePc = "returned" /\ nilDue # "no" /\ ret # Nil) => ret \in BindErrs)
    /\ [](nShutdown < MaxShutdowns => ENABLED Shutdown)

\* C4 witness: Serve returned nil after a Shutdown made while it was waiting
\* with every loop still running.
C4_Witness ==
    /\ servePc = "returned" /\ nilDue = "idleOrWait" /\ ret = Nil /\ Launched
    /\ \A l \in Loops : loopPc[l] = "running"

\* C5 as stated: the sockets of all five services are bound before a loop
\* starts, and Serve returns a bind error of any of them with no loop started.
C5_AllFiveBoundBeforeLaunch ==
    /\ (servePc \in {"go", "wait"} /\ \E l \in Loops : loopPc[l] # "idle")
           => Loops \subseteq bound
    /\ (loopOut["DHCP"] = LoopErr("DHCP") /\ loopPc["DHCP"] = "sending")
           => \A l \in Loops \ {"DHCP"} : loopPc[l] = "idle"

\* C5 amended: the four sockets Serve binds (TFTP, PXE, HTTP, DNS) are bound
\* before any loop starts, and a failure to bind one of them makes Serve
\* return that error with no loop started and none of its sockets left open.
C5_FourBoundBeforeLaunch ==
    /\ (servePc \in {"go", "wait"}) => ServeSockets \subseteq bound
    /\ (\E l \in Loops : loopPc[l] # "idle") => Launched \/ servePc = "go"
    /\ (servePc = "returned" /\ ret \in BindErrs)
           => /\ \A l \in Loops : loopPc[l] = "idle"
              /\ bound = {}
    /\ (servePc = "returned" /\ ~Launched) => ret \in BindErrs

\* C5 witness: the last bind failed after three sockets were bound.
C5_Witness ==
    /\ servePc = "returned" /\ ret = BindErr("DNS") /\ bindIdx = 4

(***************************************************************************)
(* Properties of the boot dispatch filter.                                 *)
(***************************************************************************)
\* The number of registerDNSEntry calls the filter made for the last request.
Registrations == Cardinality({i \in 1..Len(ops) : ops[i] = "registerDNSEntry"})

HandledIpxe == nReq > 0 /\ IsIpxePath(lastReq.path)

\* C6: an /ipxe request the wrapped handler has no profile for (captured
\* status not OK) causes no DNS registration and is answered with the
\* rendered generic menu and status OK.
C6_NoProfileYieldsMenu ==
    (HandledIpxe /\ lastRR.Code # StatusOK)
        => /\ Registrations = 0
           /\ w.status = StatusOK
           /\ w.body = <<Menu(IP)>>

\* C7: an /ipxe request the wrapped handler answers with status OK is relayed
\* unchanged (status, headers, body), with exactly one DNS registration when
\* its type is controlplane or init.
C7_ProfileRelayedAndRegistered ==
    (HandledIpxe /\ lastRR.Code = StatusOK)
        => /\ w = PrimaryServe(EmptyW, lastRR)
           /\ FormGet(lastReq.type) \in {"controlplane", "init"} => Registrations = 1

\* C8: a request changes the DNS store only if its type is init or
\* controlplane, and then by exactly one address appended under the
\* configured control-plane name; every other request leaves the store as
\* it was.
C8_RegistrationOnlyForControlplaneTypes ==
    [][DNSRecordsv4' # DNSRecordsv4 =>
         /\ FormGet(lastReq'.type) \in {"init", "controlplane"}
         /\ Registrations' = 1
         /\ \E ip \in KnownIPs \cup {NilIP} :
                DNSRecordsv4' = [DNSRecordsv4 EXCEPT ![Controlplane] = Append(@, ip)]]_vars

\* C8 witness: after one registration, a worker request went through the
\* registering branch and left the store alone.
C8_Witness ==
    /\ nReq = 2
    /\ DNSRecordsv4[Controlplane] = <<(<<10, 0, 0, 5>>)>>
    /\ HandledIpxe /\ lastRR.Code # StatusOK /\ ~lastReq.malformed
    /\ FormGet(lastReq.type) = "worker"
    /\ Registrations = 0

(***************************************************************************)
(* Properties of the bootstrap.                                            *)
(***************************************************************************)
\* C9: when main calls Serve the server is in exactly one mode: proxy mode
\* (ProxyDHCP, the leased address, no allocator) iff the negotiation gave a
\* lease, authoritative mode (address and prefix of --addr, an allocator over
\* the planned range) iff it gave none; and the step that ends the
\* negotiation never aborts.
C9_ExactlyOneMode ==
    /\ [](mainPc = "serve" =>
            /\ ProxyDHCP = lease.got
            /\ lease.got => /\ IP = lease.FixedAddress
                            /\ DHCPAllocator = NoAllocator
            /\ ~lease.got => /\ ParseCIDR(ipAddrFlag).ok
                             /\ IP = ParseCIDR(ipAddrFlag).ip
                             /\ Net = ParseCIDR(ipAddrFlag).net
                             /\ DHCPAllocator.made
                             /\ <<DHCPAllocator.first, DHCPAllocator.last>>
                                    = GetAvailableRange(Net, IP))
    /\ [][mainPc = "dhclient" => mainPc' \in {"proxy", "static"}]_vars

\* C9 witness: Serve is about to be called in authoritative mode, on the /30
\* prefix, after a negotiation without a lease.
C9_Witness ==
    /\ mainPc = "serve" /\ ~lease.got /\ ~ProxyDHCP
    /\ ipAddrFlag = "10.0.0.5/30"
    /\ DHCPAllocator = [made |-> TRUE, first |-> <<10, 0, 0, 6>>, last |-> <<10, 0, 0, 6>>]

ForwarderSet == {ForwardDns[i] : i \in 1..Len(ForwardDns)}

\* C10: when Serve starts, a configured gateway override is the gateway held
\* and a configured DNS override the only forwarder, whatever the lease gave;
\* the default forwarder is held only when none was learned or configured.
C10_OverridesTakePrecedence ==
    (servePc = "bind") =>
        /\ gwAddrFlag # "" => GWIP = ParseIP(gwAddrFlag)
        /\ dnsAddrFlag # "" => ForwardDns = <<dnsAddrFlag>>
        /\ (forwardDns \in ForwarderSet) <=> (dnsAddrFlag = "" /\ Len(lease.DNS) = 0)
        /\ (dnsAddrFlag = "" /\ Len(lease.DNS) > 0) => ForwardDns = LeaseForwarders(lease)

\* C10 witness: Serve started in proxy mode with a lease that carried a router
\* and two DNS servers, and both overrides configured.
C10_Witness ==
    /\ servePc = "bind" /\ lease.got /\ ProxyDHCP
    /\ Len(lease.Router) = 1 /\ Len(lease.DNS) = 2
    /\ gwAddrFlag = "192.168.123.254" /\ GWIP = <<192, 168, 123, 254>>
    /\ dnsAddrFlag = "9.9.9.9:53" /\ ForwardDns = <<"9.9.9.9:53">>

\* C11: in either mode, a SetLinkIp error other than EEXIST aborts startup
\* with Serve never called and no listener bound; with EEXIST (and no other
\* fatal error) startup goes on with the configuration a success gives.
C11_LinkIpFailureAborts ==
    /\ linkRes \notin {NotCalled, "nil", "EEXIST"}
           => mainPc = "panic" /\ servePc = "idle" /\ bound = {}
    /\ (linkRes = "EEXIST" /\ gwRes \in {NotCalled, "nil", "EEXIST"})
           => /\ mainPc \in {"overrides", "serve"}
              /\ ProxyDHCP = lease.got
              /\ IP = IF lease.got THEN lease.FixedAddress ELSE ParseCIDR(ipAddrFlag).ip

\* C11 witness: authoritative mode, the allocator built, SetLinkIp failed with
\* EPERM and main has panicked.
C11_Witness ==
    /\ linkRes = "EPERM" /\ mainPc = "panic"
    /\ ~lease.got /\ DHCPAllocator.made

\* The calls of the filter that send something to the client.
ClientWrites == {"primaryHandler(w)", "Header.Add", "WriteHeader", "Write", "Execute"}

\* C14: when req.ParseForm() fails the filter writes nothing to the client,
\* registers nothing and leaves the record store as it was.
C14_ParseFormFailureWritesNothing ==
    [][("ParseForm" \in {ops'[i] : i \in 1..Len(ops')} /\ lastReq'.malformed)
          => /\ w' = EmptyW
             /\ ops' = <<"primaryHandler(rr)", "ParseForm">>
             /\ DNSRecordsv4' = DNSRecordsv4]_vars

\* C14 witness: a malformed controlplane request was handled after another
\* request had registered, and nothing was written.
C14_Witness ==
    /\ nReq = 2 /\ lastReq.malformed /\ lastReq.type = <<"controlplane">>
    /\ ops = <<"primaryHandler(rr)", "ParseForm">>
    /\ w = EmptyW
    /\ Len(DNSRecordsv4[Controlplane]) = 1

\* C15: when rendering the menu fails the client receives an error status or
\* nothing, never a success status with a partial menu.
C15_RenderFailureNeverSuccess ==
    ops = <<"primaryHandler(rr)", "Execute", "WriteHeader">>
        => w = EmptyW \/ w.status >= 400

\* C16: the registration call comes before every call of the filter that
\* writes a header or a byte to the client.
C16_RegistrationBeforeWrite ==
    \A i, j \in 1..Len(ops) :
        (ops[i] = "registerDNSEntry" /\ ops[j] \in ClientWrites) => i < j

\* C16 witness: a request was registered and its relayed answer written.
C16_Witness ==
    /\ Registrations = 1
    /\ w.status = lastRR.Code /\ w.body = <<lastRR.Body>>
    /\ DNSRecordsv4[Controlplane] # <<>>

\* C17: every registration call carries a well-formed address.
C17_RegistrationHasAddress ==
    Registrations > 0 => ParseIP(FormGet(lastReq.ip)) \in KnownIPs

\* C19: a request whose path is neither "/ipxe" nor "ipxe" goes straight to
\* the wrapped handler with the client's writer: no capture, no menu, no
\* registration.
C19_OtherPathsPassThrough ==
    [][(nReq' = nReq + 1 /\ lastReq'.path \notin {"/ipxe", "ipxe"})
          => /\ ops' = <<"primaryHandler(w)">>
             /\ w' = PrimaryServe(EmptyW, lastRR')
             /\ DNSRecordsv4' = DNSRecordsv4]_vars

\* C19 witness: an asset request of a controlplane node that the wrapped
\* handler answered 404 reached the client as it was.
C19_Witness ==
    /\ nReq > 0 /\ lastReq.path = "/assets/vmlinuz"
    /\ lastReq.type = <<"init">> /\ lastRR.Code = 404
    /\ ops = <<"primaryHandler(w)">>
    /\ w.status = 404
    /\ DNSRecordsv4[Controlplane] = <<>>

\* C18: when Serve has returned, none of the TFTP, PXE, HTTP and DNS sockets
\* it bound is open.
C18_SocketsClosedOnReturn ==
    servePc = "returned" => bound \cap ServeSockets = {}

\* C18 witness: Serve returned an outcome of the channel after binding its
\* four sockets, the DHCP socket of its loop still open.
C18_Witness ==
    /\ Delivered /\ Launched
    /\ bindIdx = Len(BindOrder) + 1
    /\ bound = {"DHCP"}

(***************************************************************************)
(* The frame of the running server.                                        *)
(***************************************************************************)
\* The fields of the host boot configuration.
HostBootConfig == <<IP, GWIP, ForwardDns, Net, ProxyDHCP, Controlplane>>

\* C13 as stated: once main has reached its call of Serve, no step of Serve,
\* Shutdown, the loops or the filter changes a field of the configuration.
C13_ConfigNeverModified ==
    [][mainPc = "serve" => UNCHANGED HostBootConfig]_vars

\* C13: the only change to the configuration after Serve begins is made by
\* the entry of Serve, which replaces an empty forwarder list by the default
\* forwarder; every later step and every filter step leaves all fields alone.
C13_ConfigFrozenAfterDefaults ==
    [][/\ UNCHANGED <<IP, GWIP, Net, ProxyDHCP, Controlplane>>
       /\ ForwardDns' # ForwardDns
              => /\ servePc = "idle" /\ servePc' = "bind"
                 /\ Len(ForwardDns) = 0
                 /\ ForwardDns' = <<forwardDns>>]_vars

\* C13 witness: Serve ran with the forwarder of the --dns flag, a request
\* registered the control plane, Shutdown was called and Serve returned.
C13_Witness ==
    /\ servePc = "returned" /\ nShutdown > 0
    /\ dnsAddrFlag = "9.9.9.9:53" /\ ForwardDns = <<"9.9.9.9:53">>
    /\ Len(DNSRecordsv4[Controlplane]) > 0

(***************************************************************************)
(* Properties of runDhclient.                                              *)
(***************************************************************************)
\* C12: runDhclient always returns; it can return as soon as a lease is
\* offered on leaseCh or the timeout has fired and takes a branch that is
\* ready; it returns either (lease, nil) or (nil, error); and when it has
\* returned the client is stopped and the context cancelled.
C12_RunDhclientTerminates ==
    /\ <>(dhPc = "returned")
    /\ []((dhPc = "select" /\ (Len(senders) > 0 \/ timerFired))
              => ENABLED (DhSelectLease \/ DhSelectTimeout))
    /\ [][(dhPc = "select" /\ dhPc' # "select")
              => /\ dhLease'.got => Len(senders) > 0
                 /\ ~dhLease'.got => timerFired]_vars
    /\ [](dhPc \in {"stop", "cancel", "returned"}
              => \/ dhLease.got /\ dhErr = Nil
                 \/ ~dhLease.got /\ dhErr # Nil)
    /\ [](dhPc = "returned" => ~clientRunning /\ ctxCancelled)

\* C12 witness: runDhclient has returned its error after the timeout, no
\* lease having been offered.
C12_Witness ==
    /\ dhPc = "returned" /\ ~dhLease.got /\ dhErr # Nil
    /\ timerFired /\ nBound = 0 /\ ~clientRunning /\ ctxCancelled

\* C20: once runDhclient has returned, no OnBound invocation is left waiting
\* to send on leaseCh.
C20_NoCallbackLeftBlocked ==
    dhPc = "returned" => Len(senders) = 0

====
